---- MODULE Spec2Model ----
(***************************************************************************)
(* The client-side evaluation state engine of the X-ray report evaluator:  *)
(* the zustand store (evaluation, doneForId), the Index page that hydrates *)
(* a case from the backend and submits its scores, and the metrics table   *)
(* whose dropdowns edit one score at a time.                               *)
(*                                                                         *)
(* A JS value of type number | null is a sequence of length at most one:   *)
(* << >> is null and << n >> is the number n.  Array.findIndex is 1-based  *)
(* here, 0 standing for JS's -1.                                           *)
(***************************************************************************)
EXTENDS Integers, Sequences, FiniteSets, Bags, TLC

VARIABLES
  evaluation,    \* store: caseId -> array of {responseId, metrics[]}
  doneForId,     \* store: caseId -> boolean
  metrics,       \* Index state: the metric list (sentinel id "0" until loaded)
  metricsPending,\* the getMetrics() call of the current mount is in flight
  activeRecord,  \* records[currentImageIndex].id
  url,           \* window.location.search: doctorId and force parameters
  isSubmitting,  \* Index state
  hydrations,    \* initializeEvaluations() calls awaiting getExistingEvaluations
  editRequests,  \* how many calls of updateEvaluation wait at each of its awaits
  submissions,   \* handleSubmit() calls awaiting Promise.all, oldest first
  toast,         \* the notification the last step raised (NoToast: none)
  lastOp,        \* history: the handler that ran last, its inputs, the request it sent
  nOps,          \* history: how many times the user or the parent page has acted
  mem            \* the store's objects and a caller's payload as JS references

vars == <<evaluation, doneForId, metrics, metricsPending, activeRecord, url,
          isSubmitting, hydrations, editRequests, submissions, toast, lastOp, nOps,
          mem>>

-----------------------------------------------------------------------------
(* Bounds of the model. *)

\* The user and the parent page act at most this many times in a run: mounting
\* the page, switching the case, editing a score, pressing Submit.  The network
\* answers whatever they started.
MaxOps == 3

Act == nOps < MaxOps /\ nOps' = nOps + 1

-----------------------------------------------------------------------------
(* Values and the data the backend serves. *)

Null == << >>
Num(n) == << n >>

Cases == {"c1", "c2"}
NoParam == "<absent>"

\* activeRecord.modelOutputs as getRecords builds it: every output the backend
\* lists, in the backend's order (no truncation to three).
ModelOutputs(caseId) ==
  IF caseId = "c1"
  THEN << [responseId |-> "r1", response |-> "text"],
          [responseId |-> "r2", response |-> ""],
          [responseId |-> "r3", response |-> ""],
          [responseId |-> "r4", response |-> "text"] >>
  ELSE << >>

\* What GET metrics/ serves once it answers.
BackendMetrics ==
  << [id |-> "m1", name |-> "Accuracy", description |-> "d1"],
     [id |-> "m2", name |-> "Completeness", description |-> "d2"] >>

\* useState's initial metric list: the "not ready" sentinel.
LoadingMetrics ==
  << [id |-> "0", name |-> "Loading...", description |-> "Loading metrics..."] >>

Ev(r, m, s) == [model_response |-> r, metric |-> m, score |-> s]

\* The lists GET cases/{id}/evaluations may serve for a case.  A cleared score
\* is persisted as 0 (updateEvaluation sends value ?? 0), so 0 occurs.
RemoteEvaluations(caseId) ==
  IF caseId = "c1"
  THEN { << >>,
         << Ev("r1", "m1", 4), Ev("r1", "m1", 2), Ev("r2", "m2", 0) >> }
  ELSE { << >>,
         << Ev("model-2", "m1", 3) >> }

\* What POST cases/evaluations/update/ answers with a 2xx.
NoProgress == << >>
Responses ==
  { [status |-> "completed", progress |-> << 2, 2 >>],
    [status |-> "in_progress", progress |-> << 1, 2 >>],
    [status |-> "error", progress |-> NoProgress] }

\* The values an edit handler may be called with; the dropdown itself offers
\* null and 1..5.
EditValues == { Null, Num(3), Num(0), Num(6) }

MetricIds == { BackendMetrics[i].id : i \in 1..Len(BackendMetrics) }

-----------------------------------------------------------------------------
(* The store (stores/evaluation). *)

\* `model-${index + 1}` for index + 1 in 1..3
Placeholder(n) == << "model-1", "model-2", "model-3" >>[n]

DefaultSlots == [n \in 1..3 |-> [responseId |-> Placeholder(n), metrics |-> << >>]]

\* Array.prototype.findIndex, given the indices whose elements satisfy the
\* predicate: the first of them, else 0.
findIndex(satisfying) ==
  IF satisfying = {} THEN 0
  ELSE CHOOSE i \in satisfying : \A j \in satisfying : i <= j

\* A faulty variant: the response is never found, so every write adds a slot.
modelIndexOfNone(entry, responseId) == 0

modelIndexOf(entry, responseId) ==
  findIndex({ i \in 1..Len(entry) : entry[i].responseId = responseId })

\* A faulty variant: the metric is never found, so every write adds a record.
metricIndexOfNone(metricList, metricId) == 0

metricIndexOf(metricList, metricId) ==
  findIndex({ j \in 1..Len(metricList) : metricList[j].id = metricId })

\* A faulty variant: a case without an entry starts from no slots at all.
entryOrEmpty(ev, idx) ==
  IF idx \in DOMAIN ev THEN ev[idx] ELSE << >>

\* The entry setEvaluation works on: the stored one, or three empty
\* placeholder slots when the case has none.
entryOrDefault(ev, idx) ==
  IF idx \in DOMAIN ev THEN ev[idx] ELSE DefaultSlots

newMetric(payload) ==
  [id |-> payload.metricId, name |-> "", value |-> payload.value]

\* A faulty variant: the entry is rebuilt around the record written.
setEvaluationOnlyTarget(ev, idx, payload) ==
  [c \in DOMAIN ev \cup {idx} |->
     IF c = idx
     THEN << [responseId |-> payload.responseId, metrics |-> << newMetric(payload) >>] >>
     ELSE ev[c]]

setEvaluation(ev, idx, payload) ==
  LET entry == entryOrDefault(ev, idx)
      modelIndex == modelIndexOf(entry, payload.responseId)
      base == [c \in DOMAIN ev \cup {idx} |-> IF c = idx THEN entry ELSE ev[c]]
  IN  IF modelIndex = 0
      THEN [base EXCEPT ![idx] =
              Append(entry, [responseId |-> payload.responseId,
                             metrics |-> << newMetric(payload) >>])]
      ELSE LET metricIndex == metricIndexOf(entry[modelIndex].metrics, payload.metricId)
           IN  IF metricIndex = 0
               THEN [base EXCEPT ![idx][modelIndex].metrics =
                       Append(@, newMetric(payload))]
               ELSE [base EXCEPT ![idx][modelIndex].metrics[metricIndex].value =
                       payload.value]

\* payload.map(model => ({...model, metrics: model.metrics.map(m => ({...m}))}))
copyPayload(payload) ==
  [i \in 1..Len(payload) |->
     [payload[i] EXCEPT !.metrics = [j \in 1..Len(payload[i].metrics) |-> payload[i].metrics[j]]]]

\* A faulty variant: an entry the case already has is kept.
initAtIdKeepExisting(ev, idx, payload) ==
  IF idx \in DOMAIN ev
  THEN ev
  ELSE [c \in DOMAIN ev \cup {idx} |-> IF c = idx THEN copyPayload(payload) ELSE ev[c]]

\* A faulty variant: the other cases' entries are not spread into the new map.
initAtIdOnly(ev, idx, payload) ==
  [c \in {idx} |-> copyPayload(payload)]

initAtId(ev, idx, payload) ==
  [c \in DOMAIN ev \cup {idx} |-> IF c = idx THEN copyPayload(payload) ELSE ev[c]]

\* A faulty variant: the other cases' flags are not spread into the new map.
setDoneForIdOnly(done, idx, status) ==
  [c \in {idx} |-> status]

setDoneForId(done, idx, status) ==
  [c \in DOMAIN done \cup {idx} |-> IF c = idx THEN status ELSE done[c]]

EmptyMap == [c \in {} |-> 0]

\* No object allocated: the specifications that treat the store's entries as
\* values keep mem at this.
NoMem ==
  [heap |-> << >>, roots |-> EmptyMap, R |-> 0, Rcase |-> "", given |-> << >>,
   initData |-> EmptyMap, storeIsInitData |-> FALSE]

\* init(initData): set(() => ({ evaluation: initData, doneForId: {} })).
init(initData) == [evaluation |-> initData, doneForId |-> EmptyMap]

\* A faulty variant: the map is left as it is.
resetDoneStatusKeep(done) == done

resetDoneStatus(done) == EmptyMap

\* A faulty variant of the forced reset: only resetDoneStatus() is called.
forceResetFlagsOnly(ev, done) ==
  [evaluation |-> ev, doneForId |-> resetDoneStatus(done)]

\* The forced reset of the Index page: resetDoneStatus(), then
\* setState({ evaluation: {}, doneForId: {} }).
forceReset(ev, done) ==
  LET flagsCleared == resetDoneStatus(done)
  IN  [evaluation |-> EmptyMap, doneForId |-> EmptyMap]

-----------------------------------------------------------------------------
(* The adapter (services). *)

\* A request's fate: a 2xx answer carrying data, or a failure (network error,
\* timeout, non-2xx).
Ok(data) == [ok |-> TRUE, data |-> data]
Failed == [ok |-> FALSE]

\* try { return (await instance.get(...)).data } catch { return [] }
getExistingEvaluations(outcome) ==
  IF outcome.ok THEN outcome.data ELSE << >>

\* A response body: an array of items, or anything else (null, an object, a
\* string).
Arr(items) == [isArray |-> TRUE, items |-> items]
NotArr == [isArray |-> FALSE, items |-> << >>]

\* The bodies GET metrics/ may carry.
MetricsBodies == { Arr(BackendMetrics), Arr(<< >>), NotArr }

FallbackMetrics ==
  << [id |-> "1", name |-> "Accuracy"],
     [id |-> "2", name |-> "Completeness"],
     [id |-> "3", name |-> "Relevance"] >>

\* A faulty variant: an empty array is passed on.
getMetricsNoEmptyCheck(outcome) ==
  IF outcome.ok /\ outcome.data.isArray THEN outcome.data.items ELSE FallbackMetrics

\* getMetrics: the backend's list, or the fallback list when the request
\* fails or its body is no non-empty array.
getMetrics(outcome) ==
  IF outcome.ok
  THEN IF ~outcome.data.isArray \/ outcome.data.items = << >>
       THEN FallbackMetrics
       ELSE outcome.data.items
  ELSE FallbackMetrics

\* try { return (await instance.post(...)).data } catch (error) { throw error }
Pending == [kind |-> "pending"]
Rejected == [kind |-> "rejected"]
Fulfilled(data) == [kind |-> "fulfilled", data |-> data]

updateSingleEvaluation(outcome) ==
  IF outcome.ok THEN Fulfilled(outcome.data) ELSE Rejected

-----------------------------------------------------------------------------
(* The Index page: hydration. *)

\* A faulty variant: only the empty list is "not ready".
metricsReadyNonEmpty(metricList) == Len(metricList) > 0

\* !metrics.length || metrics[0].id === '0' is "not ready"
metricsReady(metricList) ==
  Len(metricList) > 0 /\ metricList[1].id # "0"

\* output ? existingEvaluations.filter(e => e.model_response === output.responseId) : []
modelEvaluationsOf(outputs, index, existing) ==
  IF index <= Len(outputs)
  THEN SelectSeq(existing, LAMBDA e : e.model_response = outputs[index].responseId)
  ELSE << >>

\* A faulty variant: ?.score ?? null, which keeps a score of 0.
existingValueOfKeepZero(modelEvaluations, metricId) ==
  LET k == findIndex({ n \in 1..Len(modelEvaluations) :
                         modelEvaluations[n].metric = metricId })
  IN  IF k = 0 THEN Null ELSE Num(modelEvaluations[k].score)

\* modelEvaluations.find(e => e.metric === metric.id)?.score || null
existingValueOf(modelEvaluations, metricId) ==
  LET k == findIndex({ n \in 1..Len(modelEvaluations) :
                         modelEvaluations[n].metric = metricId })
  IN  IF k = 0 THEN Null
      ELSE IF modelEvaluations[k].score = 0 THEN Null
      ELSE Num(modelEvaluations[k].score)

\* output?.responseId || `model-${index + 1}`
slotResponseId(outputs, index) ==
  IF index <= Len(outputs) THEN outputs[index].responseId ELSE Placeholder(index)

defaultScores(outputs, metricList, existing) ==
  [index \in 1..3 |->
     [responseId |-> slotResponseId(outputs, index),
      metrics |->
        [j \in 1..Len(metricList) |->
           [id |-> metricList[j].id,
            name |-> metricList[j].name,
            description |-> metricList[j].description,
            value |-> existingValueOf(modelEvaluationsOf(outputs, index, existing),
                                      metricList[j].id)]]]]

\* The effect on [metrics, activeRecord.id, activeRecord.modelOutputs]: when the
\* metric list is ready it calls initializeEvaluations, which sets isSubmitting
\* and awaits getExistingEvaluations.
\* A task is live while the Index instance that started it is mounted; the
\* state setters of an unmounted instance do nothing.  A task also remembers
\* (history) whether an edit was applied to its case while it was in flight.
HydrationEffect(newMetrics, newActive, inFlight) ==
  IF metricsReady(newMetrics)
  THEN /\ hydrations' = inFlight (+) SetToBag(
            { [caseId |-> newActive, metrics |-> newMetrics, live |-> TRUE,
               edited |-> FALSE] })
       /\ isSubmitting' = TRUE
  ELSE /\ hydrations' = inFlight
       /\ UNCHANGED isSubmitting

NoToast == [title |-> "", description |-> ""]
InitFailedToast ==
  [title |-> "Error",
   description |-> "Failed to initialize evaluation data. Please refresh the page."]
SubmitFailedToast ==
  [title |-> "Error", description |-> "Failed to submit evaluations. Please try again."]
SuccessToast ==
  [title |-> "Success", description |-> "All evaluations submitted successfully"]
PartialToast(progress) ==
  [title |-> "Partial Success", description |-> progress]

NothingCleared == [entries |-> {}, flags |-> {}]

stale(task) == [task EXCEPT !.live = FALSE]

\* Index mounts anew, showing case c, on a URL that carries force=true iff f
\* (and the session's doctorId as before).  Component state starts afresh; the
\* store is module-global and survives.  The first effect resets the store when
\* force=true and strips the parameter; the second starts getMetrics().
\* The URL the page is mounted at: the navigation supplies force=true, or the
\* page is mounted again at the URL as it stands.
urlAtMount(u, supplied) == [u EXCEPT !.force = supplied \/ u.force]

\* A faulty variant: the parameter is left in the URL.
stripForceKeep(u) == u

\* urlParams.delete('force'); window.history.replaceState(..., newUrl)
stripForce(u) == [u EXCEPT !.force = FALSE]

MountIndex(c, f) ==
  /\ Act
  /\ activeRecord' = c
  /\ metrics' = LoadingMetrics
  /\ metricsPending' = TRUE
  /\ LET at == urlAtMount(url, f)
     IN  /\ IF at.force
            THEN /\ evaluation' = forceReset(evaluation, doneForId).evaluation
                 /\ doneForId' = forceReset(evaluation, doneForId).doneForId
                 /\ url' = stripForce(at)
            ELSE /\ UNCHANGED <<evaluation, doneForId>>
                 /\ url' = at
         /\ lastOp' = [op |-> "mount", force |-> at.force, supplied |-> f,
                       cleared |-> IF at.force
                                   THEN [entries |-> DOMAIN evaluation,
                                         flags |-> DOMAIN doneForId]
                                   ELSE NothingCleared]
  /\ isSubmitting' = FALSE
  /\ hydrations' = BagOfAll(stale, hydrations)
  /\ submissions' = [k \in 1..Len(submissions) |-> stale(submissions[k])]
  /\ toast' = NoToast
  /\ UNCHANGED mem
  /\ UNCHANGED editRequests

NoMetricsToast ==
  [title |-> "Error", description |-> "No metrics found. Please contact support."]

\* metricsData.map(metric => ({ id, name, description: metric.description || '' }))
formatMetrics(metricsData) ==
  [j \in 1..Len(metricsData) |->
     [id |-> metricsData[j].id,
      name |-> metricsData[j].name,
      description |-> IF "description" \in DOMAIN metricsData[j]
                      THEN metricsData[j].description
                      ELSE ""]]

\* getMetrics() answers: fetchMetrics formats the list and sets it, and the
\* hydration effect runs; an empty list would raise a notification instead.
FetchMetricsResolve(outcome) ==
  /\ metricsPending
  /\ metricsPending' = FALSE
  /\ LET metricsData == getMetrics(outcome)
     IN  /\ IF metricsData = << >>
            THEN /\ toast' = NoMetricsToast
                 /\ UNCHANGED <<metrics, hydrations, isSubmitting>>
            ELSE /\ toast' = NoToast
                 /\ metrics' = formatMetrics(metricsData)
                 /\ HydrationEffect(formatMetrics(metricsData), activeRecord, hydrations)
         /\ lastOp' = [op |-> "fetchMetrics", outcome |-> outcome, result |-> metricsData]
  /\ UNCHANGED mem
  /\ UNCHANGED <<evaluation, doneForId, activeRecord, url, editRequests, submissions,
                 nOps>>

\* The parent hands Index the record of case c (a new modelOutputs array even
\* when c is the case already shown): the hydration effect runs.
SwitchCase(c) ==
  /\ Act
  /\ activeRecord' = c
  /\ HydrationEffect(metrics, c, hydrations)
  /\ toast' = NoToast
  /\ lastOp' = [op |-> "switchCase"]
  /\ UNCHANGED mem
  /\ UNCHANGED <<evaluation, doneForId, metrics, metricsPending, url, editRequests,
                 submissions>>

\* A faulty variant: the case is read when the fetch resolves.
hydrationTargetCurrent(h, current) == current

\* The case initializeEvaluations writes to: activeRecord.id as its closure
\* captured it when the effect ran.
hydrationTarget(h, current) == h.caseId

\* getExistingEvaluations settles for hydration h with the given outcome and
\* initializeEvaluations runs to its end.  existingEvaluations is a list in
\* every case, so nothing in the try block throws and the catch block's toast
\* is never raised.
InitializeEvaluationsResume(h, outcome) ==
  /\ BagIn(h, hydrations)
  /\ hydrations' = hydrations (-) SetToBag({h})
  /\ LET existing == getExistingEvaluations(outcome)
     IN  evaluation' = initAtId(evaluation, hydrationTarget(h, activeRecord),
                                defaultScores(ModelOutputs(h.caseId), h.metrics, existing))
  /\ isSubmitting' = IF h.live THEN FALSE ELSE isSubmitting
  /\ toast' = NoToast
  /\ lastOp' = [op |-> "hydrated", caseId |-> h.caseId, metrics |-> h.metrics,
                outcome |-> outcome, edited |-> h.edited]
  /\ UNCHANGED mem
  /\ UNCHANGED <<doneForId, metrics, metricsPending, activeRecord, url, editRequests,
                 submissions, nOps>>

-----------------------------------------------------------------------------
(* The metrics table (EvaluationMetrics): one edit. *)

\* shuffle (lib/utils): some reordering of the array it is given.
shuffle(seq) ==
  { [i \in 1..Len(seq) |-> seq[p[i]]] : p \in Permutations(1..Len(seq)) }

\* The modelResponses prop Index builds from the shuffled reports.
modelResponsesOf(modelReports) ==
  [index \in 1..3 |->
     IF index <= Len(modelReports)
     THEN [id |-> modelReports[index].responseId, response |-> modelReports[index]]
     ELSE [id |-> Placeholder(index),
           response |-> [responseId |-> Placeholder(index), response |-> ""]]]

\* The rows the table renders: the responses with a report text; a row's
\* dropdowns edit the response whose id is the row's modelResponse.id.
rowIds(modelResponses) ==
  { modelResponses[i].id :
      i \in { k \in 1..Len(modelResponses) : modelResponses[k].response.response # "" } }

\* The table (and its dropdowns) is rendered only with ready metrics, while the
\* page is not busy, and when the active case has a non-empty entry.
tableShown ==
  /\ metricsReady(metrics)
  /\ ~isSubmitting
  /\ activeRecord \in DOMAIN evaluation
  /\ Len(evaluation[activeRecord]) > 0

\* A faulty variant: only the upper limit is checked.
validScoreUpperOnly(value) ==
  value = Null \/ value[1] <= 5

\* value !== null && (value < 1 || value > 5) is rejected
validScore(value) ==
  value = Null \/ (value[1] >= 1 /\ value[1] <= 5)

\* A faulty variant: a cleared score is sent as the lowest score.
scoreOrOne(value) == IF value = Null THEN 1 ELSE value[1]

\* score: value ?? 0
scoreOrZero(value) == IF value = Null THEN 0 ELSE value[1]

\* updateEvaluation is suspended at `await fetch(...)`, then, once the response
\* is there, at `await response.json()` (2xx) or `await response.text()`.
NoEditRequests == [fetch |-> 0, json |-> 0, text |-> 0]

NoRequest == [sent |-> FALSE]

\* The body of the POST an accepted edit sends.
requestData(caseId, responseId, metricId, evaluatorId, value) ==
  [sent |-> TRUE, caseId |-> caseId, responseId |-> responseId, metricId |-> metricId,
   evaluatorId |-> evaluatorId, score |-> scoreOrZero(value)]

updateEvaluation(responseId, metricId, value) ==
  /\ tableShown
  /\ Act
  /\ \E modelReports \in shuffle(ModelOutputs(activeRecord)) :
       responseId \in rowIds(modelResponsesOf(modelReports))
  /\ \E j \in 1..Len(metrics) : metrics[j].id = metricId
  /\ IF validScore(value)
     THEN /\ evaluation' = setEvaluation(evaluation, activeRecord,
                 [responseId |-> responseId, metricId |-> metricId, value |-> value])
          /\ editRequests' = [editRequests EXCEPT !.fetch = @ + 1]
          /\ hydrations' = BagOfAll(
                 LAMBDA task : IF task.caseId = activeRecord
                               THEN [task EXCEPT !.edited = TRUE]
                               ELSE task,
                 hydrations)
     ELSE UNCHANGED <<evaluation, editRequests, hydrations>>
  /\ toast' = NoToast
  /\ lastOp' = [op |-> "updateEvaluation", caseId |-> activeRecord,
                responseId |-> responseId, metricId |-> metricId, value |-> value,
                request |-> IF validScore(value)
                            THEN requestData(activeRecord, responseId, metricId,
                                             url.doctorId, value)
                            ELSE NoRequest]
  /\ UNCHANGED mem
  /\ UNCHANGED <<doneForId, metrics, metricsPending, activeRecord, url, isSubmitting,
                 submissions>>

\* The fetch of an edit settles: a 2xx ("ok"), another status ("notOk") or a
\* network failure ("error").
EditRequestOutcomes == {"ok", "notOk", "error"}

\* The read of the response body settles: it resolves ("read") or rejects
\* ("rejected": a 2xx body that is not JSON, a broken stream).
EditBodyOutcomes == {"read", "rejected"}

\* How a call of updateEvaluation ends once the body it awaited has settled:
\* after response.json() at `onStatusChange?.(data.status)` ("ok"), after
\* response.text() at the logged API error ("notOk"), and in the catch when
\* the read rejected ("bodyError").
editOutcome(awaited, body) ==
  IF body = "rejected" THEN "bodyError"
  ELSE IF awaited = "json" THEN "ok" ELSE "notOk"

\* A faulty variant: a failed request discards the optimistic values.
editSettledDropOnFailure(ev, outcome) ==
  IF outcome = "ok" THEN ev ELSE EmptyMap

\* What the rest of updateEvaluation, after its awaits, does to the store: no
\* branch writes it.
editSettled(ev, outcome) == ev

\* Index renders EvaluationMetrics without an onStatusChange prop.
OnStatusChangeProvided == FALSE

\* onStatusChange?.(data.status): reached only after a 2xx response whose body
\* has parsed, and a call only when the parent passed the callback.
statusCallback(outcome) ==
  [reached |-> outcome = "ok",
   delivered |-> outcome = "ok" /\ OnStatusChangeProvided]

\* `await fetch(...)` settles.  A rejection ends the call in its catch; a
\* response suspends the call again, on the read of its body.
EditRequestSettle(outcome) ==
  /\ editRequests.fetch > 0
  /\ editRequests' =
       [editRequests EXCEPT !.fetch = @ - 1,
                            !.json = IF outcome = "ok" THEN @ + 1 ELSE @,
                            !.text = IF outcome = "notOk" THEN @ + 1 ELSE @]
  /\ IF outcome = "error"
     THEN /\ evaluation' = editSettled(evaluation, outcome)
          /\ lastOp' = [op |-> "editSettled", outcome |-> outcome,
                        status |-> statusCallback(outcome)]
     ELSE /\ evaluation' = evaluation
          /\ lastOp' = [op |-> "editResponse", outcome |-> outcome]
  /\ toast' = NoToast
  /\ UNCHANGED mem
  /\ UNCHANGED <<doneForId, metrics, metricsPending, activeRecord, url,
                 isSubmitting, hydrations, submissions, nOps>>

\* `await response.json()` or `await response.text()` settles, and the call
\* runs to its end.
EditBodySettle(awaited, body) ==
  /\ editRequests[awaited] > 0
  /\ editRequests' = [editRequests EXCEPT ![awaited] = @ - 1]
  /\ evaluation' = editSettled(evaluation, editOutcome(awaited, body))
  /\ toast' = NoToast
  /\ lastOp' = [op |-> "editSettled", outcome |-> editOutcome(awaited, body),
                status |-> statusCallback(editOutcome(awaited, body))]
  /\ UNCHANGED mem
  /\ UNCHANGED <<doneForId, metrics, metricsPending, activeRecord, url,
                 isSubmitting, hydrations, submissions, nOps>>

-----------------------------------------------------------------------------
(* The Index page: submission. *)

RECURSIVE flatten(_)
flatten(seqs) ==
  IF seqs = << >> THEN << >> ELSE Head(seqs) \o flatten(Tail(seqs))

\* A faulty variant: metric.value !== null alone.
isScoredNonNull(value) == value # Null

\* metric.value !== null && metric.value > 0
isScored(value) == value # Null /\ value[1] > 0

\* currentEvaluations.flatMap(e => e.metrics.filter(...).map(updateSingleEvaluation))
persistCallsOf(entry, caseId, evaluatorId) ==
  flatten([i \in 1..Len(entry) |->
     LET kept == SelectSeq(entry[i].metrics, LAMBDA metric : isScored(metric.value))
     IN  [j \in 1..Len(kept) |->
            [caseId |-> caseId, responseId |-> entry[i].responseId,
             metricId |-> kept[j].id, evaluatorId |-> evaluatorId,
             score |-> kept[j].value[1], result |-> Pending]]])

\* The Submit button: enabled unless the page is busy or the metrics are not ready.
submitEnabled == ~isSubmitting /\ metricsReady(metrics)

\* A faulty variant: the evaluator id is not checked.
submitPathAnyEvaluator(ev, caseId, evaluatorId) ==
  IF caseId \notin DOMAIN ev THEN "noEntry"
  ELSE IF persistCallsOf(ev[caseId], caseId, evaluatorId) = << >> THEN "noCalls"
  ELSE "issued"

\* How far handleSubmit gets before its await: it throws without an evaluator
\* id, without an entry, and with no call to wait for (results[-1] is
\* undefined, so reading its status throws); otherwise the calls are issued.
submitPath(ev, caseId, evaluatorId) ==
  IF evaluatorId = NoParam THEN "noEvaluator"
  ELSE IF caseId \notin DOMAIN ev THEN "noEntry"
  ELSE IF persistCallsOf(ev[caseId], caseId, evaluatorId) = << >> THEN "noCalls"
  ELSE "issued"

\* A faulty variant: a case without an entry makes handleSubmit return quietly.
submitCatchQuietNoEntry(path) ==
  IF path = "noEntry" THEN NoToast ELSE SubmitFailedToast

\* A faulty variant: a submission with nothing to send counts as a success.
submitCatchEmptySucceeds(path) ==
  IF path = "noCalls" THEN SuccessToast ELSE SubmitFailedToast

\* The catch block of handleSubmit: one notification, whatever was thrown.
submitCatch(path) == SubmitFailedToast

handleSubmit ==
  /\ submitEnabled
  /\ Act
  /\ LET evaluatorId == url.doctorId
         path == submitPath(evaluation, activeRecord, evaluatorId)
     IN  /\ IF path = "issued"
            THEN /\ submissions' = Append(submissions,
                      [caseId |-> activeRecord,
                       calls |-> persistCallsOf(evaluation[activeRecord], activeRecord,
                                                evaluatorId),
                       live |-> TRUE])
                 /\ isSubmitting' = TRUE
                 /\ toast' = NoToast
            ELSE /\ submissions' = submissions
                 /\ isSubmitting' = FALSE
                 /\ toast' = submitCatch(path)
         /\ lastOp' = [op |-> "handleSubmit", caseId |-> activeRecord, path |-> path]
  /\ UNCHANGED mem
  /\ UNCHANGED <<evaluation, doneForId, metrics, metricsPending, activeRecord, url,
                 hydrations, editRequests>>

allFulfilled(calls) == \A k \in 1..Len(calls) : calls[k].result.kind = "fulfilled"

\* A faulty variant: only the last call is awaited.
outcomeOfLastOnly(calls, settled) ==
  IF settled.kind = "rejected" THEN "failed"
  ELSE IF calls[Len(calls)].result.kind # "fulfilled" THEN "pending"
  ELSE LET lastResult == calls[Len(calls)].result.data
       IN  IF lastResult.status = "completed" THEN "success"
           ELSE IF lastResult.progress # NoProgress THEN "partial"
           ELSE "failed"

\* A faulty variant: Promise.allSettled, which waits for every call and never
\* rejects.
outcomeOfAllSettled(calls, settled) ==
  IF \E k \in 1..Len(calls) : calls[k].result.kind = "pending" THEN "pending"
  ELSE IF calls[Len(calls)].result.kind = "rejected" THEN "failed"
  ELSE LET lastResult == calls[Len(calls)].result.data
       IN  IF lastResult.status = "completed" THEN "success"
           ELSE IF lastResult.progress # NoProgress THEN "partial"
           ELSE "failed"

\* What handleSubmit reports once Promise.all has settled: it rejects with the
\* first rejection and fulfils when every call has; "pending" while awaited.
\* Reading progress.completed of a response without progress throws, which the
\* catch block reports as a failure.
outcomeOf(calls, settled) ==
  IF settled.kind = "rejected" THEN "failed"
  ELSE IF ~allFulfilled(calls) THEN "pending"
  ELSE LET lastResult == calls[Len(calls)].result.data
       IN  IF lastResult.status = "completed" THEN "success"
           ELSE IF lastResult.progress # NoProgress THEN "partial"
           ELSE "failed"

\* A faulty variant: partial progress marks the case done as well.
flagAfterSubmitPartial(done, caseId, report) ==
  IF report \in {"success", "partial"} THEN setDoneForId(done, caseId, TRUE) ELSE done

\* setDoneForId(activeRecord.id, true) sits in the 'completed' branch alone.
flagAfterSubmit(done, caseId, report) ==
  IF report = "success" THEN setDoneForId(done, caseId, TRUE) ELSE done

removeAt(seq, k) == [n \in 1..(Len(seq) - 1) |-> IF n < k THEN seq[n] ELSE seq[n + 1]]

\* Persist call i of submission s settles.  While Promise.all stays pending the
\* call's result is kept; once it settles, the rest of handleSubmit runs in the
\* same turn and nothing reads the calls again.
PersistSettle(s, i, outcome) ==
  /\ s \in 1..Len(submissions)
  /\ i \in 1..Len(submissions[s].calls)
  /\ submissions[s].calls[i].result = Pending
  /\ LET sub == submissions[s]
         settled == updateSingleEvaluation(outcome)
         calls == [sub.calls EXCEPT ![i].result = settled]
         report == outcomeOf(calls, settled)
         lastResult == calls[Len(calls)].result
     IN  /\ submissions' = IF report = "pending"
                           THEN [submissions EXCEPT ![s].calls = calls]
                           ELSE removeAt(submissions, s)
         /\ toast' = CASE report = "success" -> SuccessToast
                       [] report = "partial" -> PartialToast(lastResult.data.progress)
                       [] report = "failed" -> SubmitFailedToast
                       [] OTHER -> NoToast
         /\ doneForId' = flagAfterSubmit(doneForId, sub.caseId, report)
         /\ isSubmitting' = IF report # "pending" /\ sub.live THEN FALSE ELSE isSubmitting
         /\ lastOp' = [op |-> "persistSettled", caseId |-> sub.caseId, outcome |-> outcome,
                       report |-> report, calls |-> calls]
  /\ UNCHANGED mem
  /\ UNCHANGED <<evaluation, metrics, metricsPending, activeRecord, url, hydrations,
                 editRequests, nOps>>

-----------------------------------------------------------------------------
(* The system: the page, the table and the network. *)

Init ==
  /\ evaluation = EmptyMap
  /\ doneForId = EmptyMap
  /\ metrics = LoadingMetrics
  /\ metricsPending = TRUE
  /\ activeRecord \in Cases
  /\ url \in { [doctorId |-> d, force |-> FALSE] : d \in {"d1", NoParam} }
  /\ isSubmitting = FALSE
  /\ hydrations = EmptyBag
  /\ editRequests = NoEditRequests
  /\ submissions = << >>
  /\ toast = NoToast
  /\ lastOp = [op |-> "mount", force |-> FALSE, supplied |-> FALSE,
               cleared |-> NothingCleared]
  /\ nOps = 0
  /\ mem = NoMem

\* What GET metrics/ resolves with when the backend is healthy.
MetricsServed == { Ok(Arr(BackendMetrics)) }

AllResponseIds ==
  UNION { { ModelOutputs(c)[i].responseId : i \in 1..Len(ModelOutputs(c)) } : c \in Cases }

Next ==
  \/ \E c \in Cases, f \in BOOLEAN : MountIndex(c, f)
  \/ \E outcome \in MetricsServed : FetchMetricsResolve(outcome)
  \/ \E c \in Cases : SwitchCase(c)
  \/ \E h \in BagToSet(hydrations) :
       \E outcome \in { Ok(e) : e \in RemoteEvaluations(h.caseId) } \cup {Failed} :
         InitializeEvaluationsResume(h, outcome)
  \/ \E r \in AllResponseIds, m \in MetricIds, v \in EditValues : updateEvaluation(r, m, v)
  \/ \E o \in EditRequestOutcomes : EditRequestSettle(o)
  \/ \E awaited \in {"json", "text"}, body \in EditBodyOutcomes :
       EditBodySettle(awaited, body)
  \/ handleSubmit
  \/ \E s \in 1..Len(submissions) :
       \E i \in 1..Len(submissions[s].calls), outcome \in { Ok(r) : r \in Responses } \cup {Failed} : PersistSettle(s, i, outcome)

Spec == Init /\ [][Next]_vars

\* The page loading its metrics, whatever GET metrics/ answers.
\* How GET metrics/ may settle: with any of the bodies, or with a rejection.
MetricsOutcomes == { Ok(body) : body \in MetricsBodies } \cup {Failed}

NextMetrics ==
  \/ \E c \in Cases, f \in BOOLEAN : MountIndex(c, f)
  \/ \E outcome \in MetricsOutcomes : FetchMetricsResolve(outcome)
  \/ \E c \in Cases : SwitchCase(c)
  \/ \E h \in BagToSet(hydrations) :
       \E outcome \in { Ok(e) : e \in RemoteEvaluations(h.caseId) } \cup {Failed} :
         InitializeEvaluationsResume(h, outcome)

SpecMetrics == Init /\ [][NextMetrics]_vars

-----------------------------------------------------------------------------
(* The store used directly: any caller may invoke its operations with any    *)
(* arguments, and the page submits whatever the store then holds.            *)

\* The values a caller may hand setEvaluation: the store checks none of them.
StoreValues == { Null, Num(0), Num(3) }

StoreResponseIds == { "model-1", "r1" }

\* The payloads initAtId is called with: what a hydration builds, and a short
\* list holding a zero.
Payloads(idx) ==
  { defaultScores(ModelOutputs(idx), BackendMetrics, e) : e \in RemoteEvaluations(idx) }
    \cup { << [responseId |-> "r1",
               metrics |-> << [id |-> "m1", name |-> "Accuracy", description |-> "d1",
                               value |-> Num(0)] >>] >> }

\* The calls of initAtId: a case and a payload for it.
InitAtIdCalls == UNION { { << idx, payload >> : payload \in Payloads(idx) } : idx \in Cases }

\* The maps init is called with: the empty one, and one case with a payload.
InitDatas == { EmptyMap } \cup { call[1] :> call[2] : call \in InitAtIdCalls }

\* The payloads setEvaluation is called with.
StorePayloads ==
  { [responseId |-> r, metricId |-> m, value |-> v] :
      r \in StoreResponseIds, m \in MetricIds, v \in StoreValues }

\* Which branch setEvaluation takes for a payload.
branchOf(ev, idx, payload) ==
  LET entry == entryOrDefault(ev, idx)
      modelIndex == modelIndexOf(entry, payload.responseId)
  IN  IF modelIndex = 0 THEN "newModel"
      ELSE IF metricIndexOf(entry[modelIndex].metrics, payload.metricId) = 0
           THEN "newMetric"
           ELSE "overwrite"

StoreUnchanged ==
  UNCHANGED <<metrics, metricsPending, activeRecord, url, isSubmitting, hydrations,
              editRequests, submissions, mem>>

StoreSetEvaluation(idx, payload) ==
  /\ Act
  /\ evaluation' = setEvaluation(evaluation, idx, payload)
  /\ toast' = NoToast
  /\ lastOp' = [op |-> "setEvaluation", idx |-> idx, payload |-> payload,
                created |-> idx \notin DOMAIN evaluation,
                branch |-> branchOf(evaluation, idx, payload)]
  /\ UNCHANGED doneForId
  /\ StoreUnchanged

StoreInitAtId(idx, payload) ==
  /\ Act
  /\ evaluation' = initAtId(evaluation, idx, payload)
  /\ toast' = NoToast
  /\ lastOp' = [op |-> "initAtId", idx |-> idx, payload |-> payload]
  /\ UNCHANGED doneForId
  /\ StoreUnchanged

StoreInit(initData) ==
  /\ Act
  /\ evaluation' = init(initData).evaluation
  /\ doneForId' = init(initData).doneForId
  /\ toast' = NoToast
  /\ lastOp' = [op |-> "init", initData |-> initData]
  /\ StoreUnchanged

StoreSetDoneForId(idx, status) ==
  /\ Act
  /\ doneForId' = setDoneForId(doneForId, idx, status)
  /\ toast' = NoToast
  /\ lastOp' = [op |-> "setDoneForId", idx |-> idx, status |-> status]
  /\ UNCHANGED evaluation
  /\ StoreUnchanged

StoreResetDoneStatus ==
  /\ Act
  /\ doneForId' = resetDoneStatus(doneForId)
  /\ toast' = NoToast
  /\ lastOp' = [op |-> "resetDoneStatus", flags |-> DOMAIN doneForId]
  /\ UNCHANGED evaluation
  /\ StoreUnchanged

\* The forced reset, as the Index page performs it on the store.
StoreReset ==
  /\ Act
  /\ evaluation' = forceReset(evaluation, doneForId).evaluation
  /\ doneForId' = forceReset(evaluation, doneForId).doneForId
  /\ toast' = NoToast
  /\ lastOp' = [op |-> "reset"]
  /\ StoreUnchanged

InitStore ==
  /\ evaluation = EmptyMap
  /\ doneForId = EmptyMap
  /\ metrics = BackendMetrics
  /\ metricsPending = FALSE
  /\ activeRecord \in Cases
  /\ url = [doctorId |-> "d1", force |-> FALSE]
  /\ isSubmitting = FALSE
  /\ hydrations = EmptyBag
  /\ editRequests = NoEditRequests
  /\ submissions = << >>
  /\ toast = NoToast
  /\ lastOp = [op |-> "create"]
  /\ nOps = 0
  /\ mem = NoMem

NextStore ==
  \/ \E idx \in Cases, payload \in StorePayloads : StoreSetEvaluation(idx, payload)
  \/ \E call \in InitAtIdCalls : StoreInitAtId(call[1], call[2])
  \/ \E initData \in InitDatas : StoreInit(initData)
  \/ \E idx \in Cases, b \in BOOLEAN : StoreSetDoneForId(idx, b)
  \/ StoreResetDoneStatus
  \/ StoreReset
  \/ handleSubmit
  \/ \E s \in 1..Len(submissions) :
       \E i \in 1..Len(submissions[s].calls), outcome \in { Ok(r) : r \in Responses } \cup {Failed} :
         PersistSettle(s, i, outcome)

SpecStore == InitStore /\ [][NextStore]_vars

-----------------------------------------------------------------------------
(* The store with its entries as JS objects.  An address is an index into
   mem.heap; an array object holds the addresses of its elements, a model object
   the address of its metrics array, a metric object its primitive fields.
   mem.roots[c] is the array state.evaluation[c] refers to; mem.R is the array a
   caller passed to initAtId for case mem.Rcase and still holds, mem.given the
   value it had when it was passed.  mem.initData is the map object a caller
   passed to init and still holds (the array each of its keys refers to), and
   mem.storeIsInitData tells whether state.evaluation is still that object. *)

ArrayObj(items) == [kind |-> "array", items |-> items]
ModelObj(responseId, metricsAddr) ==
  [kind |-> "model", responseId |-> responseId, metrics |-> metricsAddr]
MetricObj(rec) == [kind |-> "metric", rec |-> rec]

Alloc(h, obj) == [heap |-> Append(h, obj), addr |-> Len(h) + 1]

RECURSIVE allocAll(_, _, _)
\* Fresh metric objects for the records, then a fresh array of them.
allocAll(h, recs, done) ==
  IF recs = << >> THEN Alloc(h, ArrayObj(done))
  ELSE LET me == Alloc(h, MetricObj(Head(recs)))
       IN  allocAll(me.heap, Tail(recs), Append(done, me.addr))

newMetricsArray(h, recs) == allocAll(h, recs, << >>)

RECURSIVE allocModels(_, _, _)
\* An array literal of model literals: every object of it is fresh.
allocModels(h, items, done) ==
  IF items = << >> THEN Alloc(h, ArrayObj(done))
  ELSE LET ms == newMetricsArray(h, Head(items).metrics)
           mo == Alloc(ms.heap, ModelObj(Head(items).responseId, ms.addr))
       IN  allocModels(mo.heap, Tail(items), Append(done, mo.addr))

\* The records a metrics array holds, and the value of an entry: what a reader
\* following the references sees.
metricRecs(h, metricsAddr) ==
  [j \in 1..Len(h[metricsAddr].items) |-> h[h[metricsAddr].items[j]].rec]

entryValue(h, a) ==
  [i \in 1..Len(h[a].items) |->
     [responseId |-> h[h[a].items[i]].responseId,
      metrics |-> metricRecs(h, h[h[a].items[i]].metrics)]]

storeValue(m) == [c \in DOMAIN m.roots |-> entryValue(m.heap, m.roots[c])]

\* A faulty variant: the copied model keeps the payload's metrics array.
copyMetricsShared(h, metricsAddr) == [heap |-> h, addr |-> metricsAddr]

\* model.metrics.map(metric => ({ ...metric }))
copyMetrics(h, metricsAddr) == newMetricsArray(h, metricRecs(h, metricsAddr))

RECURSIVE copyModels(_, _, _)
\* payload.map(model => ({ ...model, metrics: ... }))
copyModels(h, src, done) ==
  IF src = << >> THEN Alloc(h, ArrayObj(done))
  ELSE LET ms == copyMetrics(h, h[Head(src)].metrics)
           mo == Alloc(ms.heap, ModelObj(h[Head(src)].responseId, ms.addr))
       IN  copyModels(mo.heap, Tail(src), Append(done, mo.addr))

withRoot(roots, idx, a) ==
  [c \in DOMAIN roots \cup {idx} |-> IF c = idx THEN a ELSE roots[c]]

\* evaluation: { ...state.evaluation, [idx]: payload.map(...) }, a new map object.
initAtIdRef(m, idx, payloadAddr) ==
  LET copy == copyModels(m.heap, m.heap[payloadAddr].items, << >>)
  IN  [m EXCEPT !.heap = copy.heap, !.roots = withRoot(m.roots, idx, copy.addr),
                !.storeIsInitData = FALSE]

\* init(initData) on the objects: state.evaluation is the map object passed,
\* and its entries are the arrays that object refers to; nothing is copied.
initRef(m, initData) ==
  [m EXCEPT !.roots = initData, !.initData = initData, !.storeIsInitData = TRUE]

\* state.evaluation[idx] = Array.from({ length: 3 }, ...) when it is missing:
\* an assignment to the current map object, which may be the one init was given.
withDefaultSlots(m, idx) ==
  IF idx \in DOMAIN m.roots THEN m
  ELSE LET slots == allocModels(m.heap, DefaultSlots, << >>)
       IN  [m EXCEPT !.heap = slots.heap, !.roots = withRoot(m.roots, idx, slots.addr),
                     !.initData = IF m.storeIsInitData
                                  THEN withRoot(m.initData, idx, slots.addr)
                                  ELSE @]

\* setEvaluation on the objects: the pushes and the assignment act on the
\* objects the entry refers to.
setEvaluationRef(m, idx, payload) ==
  LET m0 == withDefaultSlots(m, idx)
      \* newEvaluation = { ...state.evaluation }
      m1 == [m0 EXCEPT !.storeIsInitData = FALSE]
      h == m1.heap
      root == m1.roots[idx]
      entry == entryValue(h, root)
      modelIndex == modelIndexOf(entry, payload.responseId)
  IN  IF modelIndex = 0
      THEN LET ms == newMetricsArray(h, << newMetric(payload) >>)
               mo == Alloc(ms.heap, ModelObj(payload.responseId, ms.addr))
           IN  [m1 EXCEPT !.heap = [mo.heap EXCEPT ![root].items = Append(@, mo.addr)]]
      ELSE LET metricsAddr == h[h[root].items[modelIndex]].metrics
               metricIndex == metricIndexOf(entry[modelIndex].metrics, payload.metricId)
           IN  IF metricIndex = 0
               THEN LET me == Alloc(h, MetricObj(newMetric(payload)))
                    IN  [m1 EXCEPT !.heap =
                           [me.heap EXCEPT ![metricsAddr].items = Append(@, me.addr)]]
               ELSE [m1 EXCEPT !.heap[h[metricsAddr].items[metricIndex]].rec.value =
                       payload.value]

\* What the holder of an array of models can do to it: assign a metric's value,
\* assign a model's responseId, push a metric, push a model.
HeapValues == { Null, Num(3) }

HeapPayloads ==
  { [responseId |-> r, metricId |-> m, value |-> v] :
      r \in StoreResponseIds, m \in MetricIds, v \in HeapValues }

CallerChanges(h, r) ==
  IF r = 0 THEN {} ELSE
  LET models == h[r].items
      cells == UNION { { <<i, j>> : j \in 1..Len(h[h[models[i]].metrics].items) } :
                       i \in 1..Len(models) }
  IN  { [kind |-> "setValue", i |-> c[1], j |-> c[2], value |-> v] :
          c \in cells, v \in HeapValues }
        \cup { [kind |-> "setResponseId", i |-> i, id |-> "model-1"] : i \in 1..Len(models) }
        \cup { [kind |-> "pushMetric", i |-> i, value |-> Num(3)] : i \in 1..Len(models) }
        \cup { [kind |-> "pushModel", id |-> "r1"] }

callerWrites(h, r, change) ==
  CASE change.kind = "setValue" ->
         LET metricsAddr == h[h[r].items[change.i]].metrics
         IN  [h EXCEPT ![h[metricsAddr].items[change.j]].rec.value = change.value]
    [] change.kind = "setResponseId" ->
         [h EXCEPT ![h[r].items[change.i]].responseId = change.id]
    [] change.kind = "pushMetric" ->
         LET metricsAddr == h[h[r].items[change.i]].metrics
             me == Alloc(h, MetricObj([id |-> "m1", name |-> "", value |-> change.value]))
         IN  [me.heap EXCEPT ![metricsAddr].items = Append(@, me.addr)]
    [] change.kind = "pushModel" ->
         LET ms == newMetricsArray(h, << >>)
             mo == Alloc(ms.heap, ModelObj(change.id, ms.addr))
         IN  [mo.heap EXCEPT ![r].items = Append(@, mo.addr)]

HeapUnchanged ==
  UNCHANGED <<doneForId, metrics, metricsPending, activeRecord, url, isSubmitting,
              hydrations, editRequests, submissions>>

\* A caller builds a payload and hands it to initAtId, keeping its reference.
HeapInitAtId(idx, payload) ==
  /\ Act
  /\ LET r == allocModels(mem.heap, payload, << >>)
         m1 == initAtIdRef([mem EXCEPT !.heap = r.heap], idx, r.addr)
     IN  mem' = [m1 EXCEPT !.R = r.addr, !.Rcase = idx, !.given = payload]
  /\ evaluation' = storeValue(mem')
  /\ toast' = NoToast
  /\ lastOp' = [op |-> "initAtId", idx |-> idx, payload |-> payload]
  /\ HeapUnchanged

HeapSetEvaluation(idx, payload) ==
  /\ Act
  /\ mem' = setEvaluationRef(mem, idx, payload)
  /\ evaluation' = storeValue(mem')
  /\ toast' = NoToast
  /\ lastOp' = [op |-> "setEvaluation", idx |-> idx, payload |-> payload,
                created |-> idx \notin DOMAIN evaluation,
                branch |-> branchOf(evaluation, idx, payload)]
  /\ HeapUnchanged

\* The arguments a caller gives init: the empty map, or a map whose keys refer
\* to the array it holds.
HeapInitKeys == SUBSET Cases

\* A caller hands init a map it keeps a reference to.
HeapInit(keys) ==
  /\ Act
  /\ keys # {} => mem.R # 0
  /\ mem' = initRef(mem, [c \in keys |-> mem.R])
  /\ evaluation' = init(storeValue(mem')).evaluation
  /\ doneForId' = init(storeValue(mem')).doneForId
  /\ toast' = NoToast
  /\ lastOp' = [op |-> "init", initData |-> evaluation']
  /\ UNCHANGED <<metrics, metricsPending, activeRecord, url, isSubmitting,
                 hydrations, editRequests, submissions>>

\* The caller changes the payload it passed.
HeapCallerWrites(change) ==
  /\ Act
  /\ mem.R # 0
  /\ mem' = [mem EXCEPT !.heap = callerWrites(mem.heap, mem.R, change)]
  /\ evaluation' = storeValue(mem')
  /\ toast' = NoToast
  /\ lastOp' = [op |-> "callerWrites", change |-> change]
  /\ HeapUnchanged

NextHeap ==
  \/ \E call \in InitAtIdCalls : HeapInitAtId(call[1], call[2])
  \/ \E keys \in HeapInitKeys : HeapInit(keys)
  \/ \E idx \in Cases, payload \in HeapPayloads : HeapSetEvaluation(idx, payload)
  \/ \E change \in CallerChanges(mem.heap, mem.R) : HeapCallerWrites(change)

SpecHeap == InitStore /\ [][NextHeap]_vars

-----------------------------------------------------------------------------
(* getRecords: the ground truth of a record, as the backend sends it and as the
   record carries it.  A JS value is undefined, null, a number, a string or an
   object; a string is the sequence of its pieces of text ("chunks"), each chunk
   standing for the characters it spells. *)

JsUndefined == [t |-> "undefined"]
JsNull == [t |-> "null"]
JsNumber(n) == [t |-> "number", n |-> n]
JsString(text) == [t |-> "string", s |-> text]
JsObject(fields) == [t |-> "object", fields |-> fields]

EmptyString == JsString(<< >>)

\* The chunks of a string that are a quoted JSON string, and the text each
\* spells between its quotes.
QuotedChunks == { "\"findings\"", "\"impressions\"", "\"impression\"", "\"A\"" }

Unquote(chunk) ==
  CASE chunk = "\"findings\"" -> "findings"
    [] chunk = "\"impressions\"" -> "impressions"
    [] chunk = "\"impression\"" -> "impression"
    [] chunk = "\"A\"" -> "A"

\* a || b
truthy(v) ==
  CASE v.t = "undefined" -> FALSE
    [] v.t = "null" -> FALSE
    [] v.t = "number" -> v.n # 0
    [] v.t = "string" -> v.s # << >>
    [] v.t = "object" -> TRUE

or(a, b) == IF truthy(a) THEN a ELSE b

\* obj.key
get(obj, key) ==
  IF key \in DOMAIN obj.fields THEN obj.fields[key] ELSE JsUndefined

RECURSIVE skipWs(_)
skipWs(text) ==
  IF text # << >> /\ Head(text) = " " THEN skipWs(Tail(text)) ELSE text

RECURSIVE dropTrailingWs(_)
dropTrailingWs(text) ==
  IF text # << >> /\ text[Len(text)] = " "
  THEN dropTrailingWs(SubSeq(text, 1, Len(text) - 1))
  ELSE text

\* A faulty variant: the string is tested as it came.
trimNone(text) == text

\* String.prototype.trim
trim(text) == dropTrailingWs(skipWs(text))

\* text.startsWith('{')
startsWithBrace(text) == text # << >> /\ Head(text) = "{"

ParseFailed == [ok |-> FALSE]
Parsed(value, rest) == [ok |-> TRUE, value |-> value, rest |-> rest]

RECURSIVE digitsOf(_)
\* The run of digit chunks a text starts with.
digitsOf(text) ==
  IF text # << >> /\ Head(text) = "1" THEN << "1" >> \o digitsOf(Tail(text)) ELSE << >>

RECURSIVE numberOf(_)
numberOf(digits) ==
  IF digits = << >> THEN 0 ELSE 10 * numberOf(SubSeq(digits, 1, Len(digits) - 1)) + 1

RECURSIVE parseValue(_)
RECURSIVE parseMembers(_, _, _)

\* JSON value: a quoted string, a number or an object, after optional
\* whitespace.
parseValue(text) ==
  LET t == skipWs(text)
  IN  IF t = << >> THEN ParseFailed
      ELSE IF Head(t) \in QuotedChunks
           THEN Parsed(JsString(<< Unquote(Head(t)) >>), Tail(t))
      ELSE IF Head(t) = "1"
           THEN Parsed(JsNumber(numberOf(digitsOf(t))),
                       SubSeq(t, Len(digitsOf(t)) + 1, Len(t)))
      ELSE IF Head(t) = "{"
           THEN parseMembers(skipWs(Tail(t)), [k \in {} |-> JsUndefined], TRUE)
      ELSE ParseFailed

\* The members of an object up to its closing brace; a key given twice keeps
\* its last value.
parseMembers(t, fields, first) ==
  IF t = << >> THEN ParseFailed
  ELSE IF first /\ Head(t) = "}" THEN Parsed(JsObject(fields), Tail(t))
  ELSE IF Head(t) \notin QuotedChunks THEN ParseFailed
  ELSE LET key == Unquote(Head(t))
           colon == skipWs(Tail(t))
       IN  IF colon = << >> \/ Head(colon) # ":" THEN ParseFailed
           ELSE LET v == parseValue(Tail(colon))
                IN  IF ~v.ok THEN ParseFailed
                    ELSE LET after == skipWs(v.rest)
                             added == [k \in DOMAIN fields \cup {key} |->
                                         IF k = key THEN v.value ELSE fields[k]]
                         IN  IF after = << >> THEN ParseFailed
                             ELSE IF Head(after) = "}"
                                  THEN Parsed(JsObject(added), Tail(after))
                             ELSE IF Head(after) = ","
                                  THEN parseMembers(skipWs(Tail(after)), added, FALSE)
                             ELSE ParseFailed

\* JSON.parse: the value of the whole text, or a SyntaxError.
JSONparse(text) ==
  LET v == parseValue(text)
  IN  IF v.ok /\ skipWs(v.rest) = << >> THEN [ok |-> TRUE, value |-> v.value]
      ELSE ParseFailed

\* { findings: x.findings || '', impressions: x.impressions || x.impression || '' }
fieldsOf(x) ==
  [findings |-> or(get(x, "findings"), EmptyString),
   impressions |-> or(or(get(x, "impressions"), get(x, "impression")), EmptyString)]

EmptyGroundTruth == [findings |-> EmptyString, impressions |-> EmptyString]

\* The groundTruth of a record, from data.groundTruth (caseItem.groundTruth in
\* the doctor's branch, which has the same code).
groundTruthOf(raw) ==
  IF raw.t = "object" THEN fieldsOf(raw)
  ELSE IF raw.t = "string"
       THEN IF startsWithBrace(trim(raw.s))
            THEN LET parsed == JSONparse(raw.s)
                 IN  IF parsed.ok THEN fieldsOf(parsed.value)
                     ELSE [findings |-> raw, impressions |-> EmptyString]
            ELSE [findings |-> or(raw, EmptyString), impressions |-> EmptyString]
       ELSE EmptyGroundTruth

\* What the backend may send as groundTruth: every string of up to MaxChunks
\* chunks, longer JSON texts (whole, padded, cut short, with a trailing comma,
\* nested), objects with any of the three fields, and values of other types.
MaxChunks == 3

Chunks == { "{", "}", ":", ",", " ", "1", "A" } \cup QuotedChunks

ShortTexts == UNION { [1..k -> Chunks] : k \in 0..MaxChunks }

LongTexts ==
  { << "{", "\"findings\"", ":", "\"A\"", "}" >>,
    << "{", "\"findings\"", ":", "\"A\"", ",", "\"impressions\"", ":", "\"A\"", "}" >>,
    << " ", "{", "\"findings\"", ":", "\"A\"", ",", "\"impression\"", ":", "1", "}", " " >>,
    << "{", "\"impression\"", ":", "\"A\"", ",", "\"impressions\"", ":", "\"findings\"", "}" >>,
    << "{", "\"findings\"", ":", "\"A\"", ",", "\"impressions\"", ":", "\"A\"" >>,
    << "{", "\"findings\"", ":", "\"A\"", ",", "}" >>,
    << "{", "\"findings\"", ":", "{", "}", "}" >>,
    << "{", "\"findings\"", ":", "\"A\"", "}", "A" >>,
    << "A", " ", "{", "\"findings\"", ":", "\"A\"", "}" >>,
    << "\"A\"", " ", "1", "1" >> }

FieldValues == { EmptyString, JsString(<< "A" >>), JsNumber(0), JsNull }

GroundTruthObjects ==
  UNION { { JsObject(f) : f \in [keys -> FieldValues] } :
            keys \in SUBSET {"findings", "impressions", "impression"} }

GroundTruths ==
  { JsString(text) : text \in ShortTexts \cup LongTexts }
    \cup GroundTruthObjects
    \cup { JsUndefined, JsNull, JsNumber(0), JsNumber(1) }

\* getRecords has been called and the backend answers with a case (or, in the
\* doctor's branch, a list of cases) whose groundTruth is one of GroundTruths.
InitRecords ==
  /\ evaluation = EmptyMap
  /\ doneForId = EmptyMap
  /\ metrics = LoadingMetrics
  /\ metricsPending = TRUE
  /\ activeRecord = "c1"
  /\ url = [doctorId |-> "d1", force |-> FALSE]
  /\ isSubmitting = FALSE
  /\ hydrations = EmptyBag
  /\ editRequests = NoEditRequests
  /\ submissions = << >>
  /\ toast = NoToast
  /\ \E branch \in {"case", "doctor"}, raw \in GroundTruths :
       lastOp = [op |-> "getRecordsCalled", branch |-> branch, groundTruth |-> raw]
  /\ nOps = 0
  /\ mem = NoMem

\* The response arrives and getRecords builds the record.
GetRecordsResolve ==
  /\ lastOp.op = "getRecordsCalled"
  /\ lastOp' = [op |-> "getRecords", branch |-> lastOp.branch,
                groundTruth |-> lastOp.groundTruth,
                record |-> [groundTruth |-> groundTruthOf(lastOp.groundTruth)]]
  /\ UNCHANGED <<evaluation, doneForId, metrics, metricsPending, activeRecord, url,
                 isSubmitting, hydrations, editRequests, submissions, toast, nOps, mem>>

NextRecords == GetRecordsResolve

SpecRecords == InitRecords /\ [][NextRecords]_vars

-----------------------------------------------------------------------------
(* Properties. *)

\* The slots of an entry that carry a response id, and the records of a metric
\* list that carry a metric id.
slotsWith(entry, responseId) ==
  { i \in 1..Len(entry) : entry[i].responseId = responseId }

recordsWith(metricList, metricId) ==
  { j \in 1..Len(metricList) : metricList[j].id = metricId }

\* C1: once setEvaluation has returned for (case, response, metric, value),
\* whatever calls came before it, the case's entry holds exactly one slot for the
\* response, that slot exactly one record for the metric, and the record's
\* value is the value of this last call.
C1_LastWriteWins ==
  lastOp.op = "setEvaluation" =>
    /\ lastOp.idx \in DOMAIN evaluation
    /\ LET entry == evaluation[lastOp.idx]
       IN  \E i \in 1..Len(entry) :
             /\ slotsWith(entry, lastOp.payload.responseId) = {i}
             /\ \E j \in 1..Len(entry[i].metrics) :
                  /\ recordsWith(entry[i].metrics, lastOp.payload.metricId) = {j}
                  /\ entry[i].metrics[j].value = lastOp.payload.value

\* A call has overwritten the record an earlier setEvaluation call created for
\* the same triple (such records carry the empty name).
C1_Witness ==
  /\ lastOp.op = "setEvaluation"
  /\ lastOp.branch = "overwrite"
  /\ lastOp.payload.value = Num(3)
  /\ LET entry == evaluation[lastOp.idx]
     IN  \E i \in slotsWith(entry, lastOp.payload.responseId) :
           \E j \in recordsWith(entry[i].metrics, lastOp.payload.metricId) :
             entry[i].metrics[j].name = ""

\* C2: in every reachable state of the page, no entry holds two slots with the
\* same response id and no slot holds two records with the same metric id.
C2_UniqueIds ==
  \A c \in DOMAIN evaluation :
    LET entry == evaluation[c]
    IN  \A i \in 1..Len(entry) :
          /\ slotsWith(entry, entry[i].responseId) = {i}
          /\ \A j \in 1..Len(entry[i].metrics) :
               recordsWith(entry[i].metrics, entry[i].metrics[j].id) = {j}

\* After a hydration, two edits have added a fourth slot and a second record
\* to it.
C2_Witness ==
  /\ lastOp.op = "updateEvaluation"
  /\ "c1" \in DOMAIN evaluation
  /\ Len(evaluation["c1"]) = 4
  /\ Len(evaluation["c1"][4].metrics) = 2
  /\ Len(evaluation["c1"][1].metrics) = 2

\* C3: once a case has been hydrated, and until the store is reset, every slot
\* of its entry holds a record for every metric of the metric list, whatever
\* edits followed.  (On the page an entry exists only through a hydration.)
C3_FullCoverage ==
  \A c \in DOMAIN evaluation :
    \A i \in 1..Len(evaluation[c]) :
      \A m \in MetricIds : recordsWith(evaluation[c][i].metrics, m) # {}

\* The evaluations of a list that match a response id and a metric id.
matching(existing, responseId, metricId) ==
  { k \in 1..Len(existing) :
      existing[k].model_response = responseId /\ existing[k].metric = metricId }

\* C4 as stated: after a hydration that fetched the list E, the entry is three
\* slots in order, each with one record per metric in order, and a record's
\* value is the score of an evaluation of E matching the slot's response id
\* and the metric, or null when E holds no such evaluation.
C4_HydrationResult ==
  (lastOp.op = "hydrated" /\ lastOp.outcome.ok) =>
    LET entry == evaluation[lastOp.caseId]
        outputs == ModelOutputs(lastOp.caseId)
        E == lastOp.outcome.data
        M == lastOp.metrics
    IN  /\ Len(entry) = 3
        /\ \A n \in 1..3 :
             /\ entry[n].responseId =
                  IF n <= Len(outputs) THEN outputs[n].responseId ELSE Placeholder(n)
             /\ Len(entry[n].metrics) = Len(M)
             /\ \A j \in 1..Len(M) :
                  /\ entry[n].metrics[j].id = M[j].id
                  /\ LET found == matching(E, entry[n].responseId, M[j].id)
                     IN  IF found = {}
                         THEN entry[n].metrics[j].value = Null
                         ELSE \E k \in found : entry[n].metrics[j].value = Num(E[k].score)

\* C4 amended: the structure is as stated; a record's value is the score of the
\* first evaluation of E matching the slot's model output and the metric when
\* the slot has a model output and that score is not 0, and null otherwise.
C4_HydrationResultAmended ==
  (lastOp.op = "hydrated" /\ lastOp.outcome.ok) =>
    LET entry == evaluation[lastOp.caseId]
        outputs == ModelOutputs(lastOp.caseId)
        E == lastOp.outcome.data
        M == lastOp.metrics
    IN  /\ Len(entry) = 3
        /\ \A n \in 1..3 :
             /\ entry[n].responseId =
                  IF n <= Len(outputs) THEN outputs[n].responseId ELSE Placeholder(n)
             /\ Len(entry[n].metrics) = Len(M)
             /\ \A j \in 1..Len(M) :
                  /\ entry[n].metrics[j].id = M[j].id
                  /\ LET found == IF n <= Len(outputs)
                                  THEN matching(E, outputs[n].responseId, M[j].id)
                                  ELSE {}
                     IN  IF found = {}
                         THEN entry[n].metrics[j].value = Null
                         ELSE LET first == CHOOSE k \in found : \A l \in found : k <= l
                              IN  entry[n].metrics[j].value =
                                    IF E[first].score = 0 THEN Null ELSE Num(E[first].score)

\* A hydration of c1 has fetched a list with two scores for (r1, m1) and a 0
\* for (r2, m2), and stored the first and null.
C4_Witness ==
  /\ lastOp.op = "hydrated"
  /\ lastOp.outcome.ok
  /\ lastOp.caseId = "c1"
  /\ Len(lastOp.outcome.data) = 3
  /\ evaluation["c1"][1].metrics[1].value = Num(4)
  /\ evaluation["c1"][2].metrics[2].value = Null

\* C5: a hydration whose fetch of the remote evaluations fails leaves the
\* store as it was and raises the initialisation-failure notification.
C5_FailureAborts ==
  [][ (lastOp'.op = "hydrated" /\ ~lastOp'.outcome.ok) =>
        (evaluation' = evaluation /\ toast' = InitFailedToast) ]_vars

\* The cells of an entry: slot and record indices.
cellsOf(entry) ==
  UNION { { <<i, j>> : j \in 1..Len(entry[i].metrics) } : i \in 1..Len(entry) }

\* The calls of a list that persist a response's score for a metric.
callsFor(calls, responseId, metricId) ==
  { k \in 1..Len(calls) : calls[k].responseId = responseId /\ calls[k].metricId = metricId }

\* A call list with the results left out.
issuedCalls(calls) ==
  [k \in 1..Len(calls) |-> [calls[k] EXCEPT !.result = Pending]]

\* C6: a submission issues a persist call for every score of the case that is
\* non-null when it starts, and a case's flag becomes true only in the step
\* that ends one such round of the case with every call of the round answered
\* successfully.
C6_FlagOnlyAfterFullRound ==
  [][ /\ (lastOp'.op = "handleSubmit" /\ lastOp'.path = "issued") =>
           LET entry == evaluation[activeRecord]
               calls == submissions'[Len(submissions')].calls
           IN  \A cell \in cellsOf(entry) :
                 LET slot == entry[cell[1]]
                     metric == slot.metrics[cell[2]]
                 IN  metric.value # Null =>
                       \E k \in callsFor(calls, slot.responseId, metric.id) :
                         /\ calls[k].caseId = activeRecord
                         /\ calls[k].score = metric.value[1]
      /\ \A c \in Cases :
           ( /\ ~(c \in DOMAIN doneForId /\ doneForId[c])
             /\ c \in DOMAIN doneForId' /\ doneForId'[c] ) =>
               /\ lastOp'.op = "persistSettled"
               /\ lastOp'.caseId = c
               /\ \A k \in 1..Len(lastOp'.calls) : lastOp'.calls[k].result.kind = "fulfilled"
               /\ \E s \in 1..Len(submissions) :
                    /\ submissions[s].caseId = c
                    /\ issuedCalls(submissions[s].calls) = issuedCalls(lastOp'.calls)
    ]_vars

\* A round of two calls for c1 has ended with both answered, and the flag is
\* set; the entry holds null scores as well.
C6_Witness ==
  /\ lastOp.op = "persistSettled"
  /\ lastOp.report = "success"
  /\ lastOp.caseId = "c1"
  /\ Len(lastOp.calls) = 2
  /\ "c1" \in DOMAIN doneForId /\ doneForId["c1"]
  /\ \E cell \in cellsOf(evaluation["c1"]) :
       evaluation["c1"][cell[1]].metrics[cell[2]].value = Null

\* C7: a submission that passes its checks issues exactly one persist call,
\* carrying the value, for each record whose value is neither null nor 0 (or
\* less), none for any other record, and no call besides.
C7_OneCallPerScoredRecord ==
  (lastOp.op = "handleSubmit" /\ lastOp.path \in {"issued", "noCalls"}) =>
    LET entry == evaluation[lastOp.caseId]
        calls == IF lastOp.path = "issued"
                 THEN submissions[Len(submissions)].calls
                 ELSE << >>
    IN  /\ \A cell \in cellsOf(entry) :
             LET slot == entry[cell[1]]
                 metric == slot.metrics[cell[2]]
                 sent == callsFor(calls, slot.responseId, metric.id)
             IN  IF metric.value # Null /\ metric.value[1] > 0
                 THEN \E k \in 1..Len(calls) :
                        /\ sent = {k}
                        /\ calls[k].caseId = lastOp.caseId
                        /\ calls[k].evaluatorId = url.doctorId
                        /\ calls[k].score = metric.value[1]
                 ELSE sent = {}
        /\ \A k \in 1..Len(calls) :
             \E cell \in cellsOf(entry) :
               k \in callsFor(calls, entry[cell[1]].responseId,
                              entry[cell[1]].metrics[cell[2]].id)

\* A submission has issued its calls for an entry holding a 0, a null and a
\* positive score.
C7_Witness ==
  /\ lastOp.op = "handleSubmit"
  /\ lastOp.path = "issued"
  /\ LET entry == evaluation[lastOp.caseId]
     IN  /\ \E cell \in cellsOf(entry) : entry[cell[1]].metrics[cell[2]].value = Num(0)
         /\ \E cell \in cellsOf(entry) : entry[cell[1]].metrics[cell[2]].value = Null
         /\ \E cell \in cellsOf(entry) : entry[cell[1]].metrics[cell[2]].value = Num(4)

\* C8: when every call of a round has been answered successfully, the flag is
\* set to true if the last call's response says "completed"; otherwise the
\* flag stays as it was and a partial-progress outcome is reported.
C8_LastResponseDecides ==
  [][ ( /\ lastOp'.op = "persistSettled"
        /\ \A k \in 1..Len(lastOp'.calls) : lastOp'.calls[k].result.kind = "fulfilled" ) =>
          LET c == lastOp'.caseId
              lastResult == lastOp'.calls[Len(lastOp'.calls)].result.data
          IN  IF lastResult.status = "completed"
              THEN c \in DOMAIN doneForId' /\ doneForId'[c]
              ELSE doneForId' = doneForId /\ toast'.title = "Partial Success"
    ]_vars

\* C9: when a persist call of a round is rejected, the round is reported as
\* failed and the flags stay as they were.
C9_RejectionFails ==
  [][ (lastOp'.op = "persistSettled" /\ ~lastOp'.outcome.ok) =>
        (toast' = SubmitFailedToast /\ doneForId' = doneForId) ]_vars

\* A call of a round was rejected after the round's last call had been
\* answered "completed".
C9_Witness ==
  /\ lastOp.op = "persistSettled"
  /\ ~lastOp.outcome.ok
  /\ Len(lastOp.calls) = 2
  /\ lastOp.calls[1].result.kind = "rejected"
  /\ lastOp.calls[2].result.kind = "fulfilled"
  /\ lastOp.calls[2].result.data.status = "completed"
  /\ toast = SubmitFailedToast
  /\ lastOp.caseId \notin DOMAIN doneForId

\* C10: an edit with a number outside 1..5 changes nothing in the store and
\* sends no request; an edit with null stores null in the record it names.
C10_EditValidation ==
  [][ lastOp'.op = "updateEvaluation" =>
        LET value == lastOp'.value
        IN  /\ (value # Null /\ (value[1] < 1 \/ value[1] > 5)) =>
                 /\ evaluation' = evaluation
                 /\ editRequests' = editRequests
                 /\ ~lastOp'.request.sent
            /\ value = Null =>
                 LET entry == evaluation'[lastOp'.caseId]
                 IN  \E i \in slotsWith(entry, lastOp'.responseId) :
                       \E j \in recordsWith(entry[i].metrics, lastOp'.metricId) :
                         entry[i].metrics[j].value = Null
    ]_vars

\* An edit with 6 has been discarded while the record it named holds a score.
C10_Witness ==
  /\ lastOp.op = "updateEvaluation"
  /\ lastOp.value = Num(6)
  /\ ~lastOp.request.sent
  /\ lastOp.responseId = "r1" /\ lastOp.metricId = "m1"
  /\ evaluation[lastOp.caseId][1].metrics[1].value = Num(4)

\* C11: initAtId stores a deep copy of the payload.  While the store's entries
\* are the ones initAtId and setEvaluation made (the caller has not handed the
\* array R itself to init, which keeps its argument by reference), a later
\* change the caller makes to the array it passed (R), its models, their metrics
\* arrays or their metric objects leaves every stored entry as it was; a later
\* setEvaluation on a case whose entry is not R itself leaves R as it was; and
\* initAtId itself leaves R holding what was passed while the stored entry
\* holds the same value.
C11_DeepCopyIsolation ==
  [][ /\ (lastOp'.op = "callerWrites" /\ \A c \in DOMAIN mem.roots : mem.roots[c] # mem.R)
           => evaluation' = evaluation
      /\ (/\ lastOp'.op = "setEvaluation"
          /\ mem.R # 0
          /\ lastOp'.idx \in DOMAIN mem.roots => mem.roots[lastOp'.idx] # mem.R)
           => entryValue(mem'.heap, mem.R) = entryValue(mem.heap, mem.R)
      /\ lastOp'.op = "initAtId"
           => /\ entryValue(mem'.heap, mem'.R) = lastOp'.payload
              /\ evaluation'[lastOp'.idx] = lastOp'.payload ]_vars

\* The caller has changed R since it passed it, and setEvaluation has then
\* overwritten a value in the entry that was copied from it.
C11_Witness ==
  /\ lastOp.op = "setEvaluation"
  /\ lastOp.branch = "overwrite"
  /\ mem.R # 0
  /\ lastOp.idx = mem.Rcase
  /\ entryValue(mem.heap, mem.R) # mem.given
  /\ evaluation[mem.Rcase] # mem.given
  /\ evaluation[mem.Rcase] # entryValue(mem.heap, mem.R)

\* C12: setEvaluation on a case without an entry first gives the case the
\* three slots model-1, model-2, model-3 with empty metric lists and then
\* applies the edit to them: the record goes into the placeholder the payload
\* names, or into a fourth slot appended for the payload's response.
C12_LazyCreation ==
  (lastOp.op = "setEvaluation" /\ lastOp.created) =>
    /\ lastOp.idx \in DOMAIN evaluation
    /\ LET entry == evaluation[lastOp.idx]
           payload == lastOp.payload
           edited == << [id |-> payload.metricId, name |-> "", value |-> payload.value] >>
           placeholders == { "model-1", "model-2", "model-3" }
       IN  /\ Len(entry) = IF payload.responseId \in placeholders THEN 3 ELSE 4
           /\ entry[1].responseId = "model-1"
           /\ entry[2].responseId = "model-2"
           /\ entry[3].responseId = "model-3"
           /\ \A n \in 1..3 :
                entry[n].metrics =
                  IF entry[n].responseId = payload.responseId THEN edited ELSE << >>
           /\ payload.responseId \notin placeholders =>
                entry[4] = [responseId |-> payload.responseId, metrics |-> edited]

\* A first edit of a case named a response that is no placeholder: three empty
\* placeholders and a fourth slot.
C12_Witness ==
  /\ lastOp.op = "setEvaluation"
  /\ lastOp.created
  /\ lastOp.payload.responseId = "r1"
  /\ Len(evaluation[lastOp.idx]) = 4

\* C13: right after the forced reset the store holds no entry and no flag.
C13_ResetEmpties ==
  (lastOp.op = "mount" /\ lastOp.force) =>
    (DOMAIN evaluation = {} /\ DOMAIN doneForId = {})

\* A forced reset has run on a store that held an entry and a flag.
C13_Witness ==
  /\ lastOp.op = "mount"
  /\ lastOp.force
  /\ lastOp.cleared.entries # {}
  /\ lastOp.cleared.flags # {}
  /\ DOMAIN evaluation = {}

\* C14: setDoneForId(idx, status) makes the flag of idx equal status, keeps
\* every other case's flag (or its absence) and keeps the score map.
C14_SetDoneFrame ==
  [][ lastOp'.op = "setDoneForId" =>
        /\ lastOp'.idx \in DOMAIN doneForId'
        /\ doneForId'[lastOp'.idx] = lastOp'.status
        /\ \A c \in Cases \ {lastOp'.idx} :
             /\ (c \in DOMAIN doneForId') = (c \in DOMAIN doneForId)
             /\ c \in DOMAIN doneForId => doneForId'[c] = doneForId[c]
        /\ evaluation' = evaluation
    ]_vars

\* The flag of c1 has been set to false while c2's flag is true and the store
\* holds scores.
C14_Witness ==
  /\ lastOp.op = "setDoneForId"
  /\ lastOp.idx = "c1"
  /\ lastOp.status = FALSE
  /\ "c2" \in DOMAIN doneForId /\ doneForId["c2"]
  /\ DOMAIN evaluation # {}

\* C15: resetDoneStatus leaves no case with a flag and keeps the score map.
C15_ResetAllFrame ==
  [][ lastOp'.op = "resetDoneStatus" =>
        (DOMAIN doneForId' = {} /\ evaluation' = evaluation) ]_vars

\* The flags have been cleared while the store holds scores.
C15_Witness ==
  /\ lastOp.op = "resetDoneStatus"
  /\ lastOp.flags # {}
  /\ DOMAIN doneForId = {}
  /\ DOMAIN evaluation # {}

\* C16: a submission attempted without an evaluator id in the URL issues no
\* persist call, raises the failure notification and leaves the flags and the
\* score map as they were.
C16_NoEvaluatorFails ==
  [][ (lastOp'.op = "handleSubmit" /\ url.doctorId = NoParam) =>
        /\ submissions' = submissions
        /\ toast' = SubmitFailedToast
        /\ doneForId' = doneForId
        /\ evaluation' = evaluation
    ]_vars

\* Such a submission has failed although the case's entry holds a score.
C16_Witness ==
  /\ lastOp.op = "handleSubmit"
  /\ url.doctorId = NoParam
  /\ lastOp.caseId \in DOMAIN evaluation
  /\ \E cell \in cellsOf(evaluation[lastOp.caseId]) :
       evaluation[lastOp.caseId][cell[1]].metrics[cell[2]].value = Num(4)
  /\ toast = SubmitFailedToast
  /\ submissions = << >>

\* C17: a submission attempted (with an evaluator id) for a case without an
\* entry issues no persist call, raises the failure notification, creates no
\* entry and leaves the flags as they were.
C17_NoEntryFails ==
  [][ ( /\ lastOp'.op = "handleSubmit"
        /\ url.doctorId # NoParam
        /\ activeRecord \notin DOMAIN evaluation ) =>
          /\ submissions' = submissions
          /\ toast' = SubmitFailedToast
          /\ activeRecord \notin DOMAIN evaluation'
          /\ evaluation' = evaluation
          /\ doneForId' = doneForId
    ]_vars

\* Such a submission has failed for the active case while another case has an
\* entry.
C17_Witness ==
  /\ lastOp.op = "handleSubmit"
  /\ url.doctorId # NoParam
  /\ lastOp.caseId \notin DOMAIN evaluation
  /\ DOMAIN evaluation # {}
  /\ toast = SubmitFailedToast

\* C18: getMetrics always returns a non-empty list: the fallback list with
\* ids 1, 2, 3 when the request fails or its body is no non-empty array, and
\* the backend's list as it came otherwise.
C18_MetricsFallback ==
  lastOp.op = "fetchMetrics" =>
    LET outcome == lastOp.outcome
        result == lastOp.result
    IN  /\ Len(result) > 0
        /\ IF outcome.ok /\ outcome.data.isArray /\ Len(outcome.data.items) > 0
           THEN result = outcome.data.items
           ELSE /\ Len(result) = 3
                /\ result[1] = [id |-> "1", name |-> "Accuracy"]
                /\ result[2] = [id |-> "2", name |-> "Completeness"]
                /\ result[3] = [id |-> "3", name |-> "Relevance"]

\* The request for the metrics failed and the page shows the fallback list.
C18_Witness ==
  /\ lastOp.op = "fetchMetrics"
  /\ ~lastOp.outcome.ok
  /\ Len(metrics) = 3
  /\ metrics[1].id = "1"
  /\ metrics[3].description = ""

\* C19: when a hydration of a case completes after an edit was applied to the
\* case while the hydration's fetch was in flight, the case's entry is the
\* structure built from the case's model outputs, the metrics and the fetched
\* evaluations alone (none, when the fetch failed): nothing of the edit stays.
C19_HydrationOverwritesEdits ==
  (lastOp.op = "hydrated" /\ lastOp.edited) =>
    LET E == IF lastOp.outcome.ok THEN lastOp.outcome.data ELSE << >>
    IN  /\ lastOp.caseId \in DOMAIN evaluation
        /\ evaluation[lastOp.caseId] =
             defaultScores(ModelOutputs(lastOp.caseId), lastOp.metrics, E)

\* A hydration of c1 has completed with fetched evaluations after an edit made
\* during its flight.
C19_Witness ==
  /\ lastOp.op = "hydrated"
  /\ lastOp.edited
  /\ lastOp.caseId = "c1"
  /\ lastOp.outcome.ok
  /\ lastOp.outcome.data # << >>
  /\ evaluation["c1"][1].metrics[1].value = Num(4)

\* C20: a hydration of a case that resolves while another case is active
\* replaces the entry of its own case by the structure built from that case's
\* model outputs and fetched evaluations, and leaves every other case's entry
\* (or its absence) as it was.
C20_StaleHydrationApplied ==
  [][ (lastOp'.op = "hydrated" /\ lastOp'.caseId # activeRecord) =>
        LET A == lastOp'.caseId
            E == IF lastOp'.outcome.ok THEN lastOp'.outcome.data ELSE << >>
        IN  /\ A \in DOMAIN evaluation'
            /\ evaluation'[A] = defaultScores(ModelOutputs(A), lastOp'.metrics, E)
            /\ \A c \in Cases \ {A} :
                 /\ (c \in DOMAIN evaluation') = (c \in DOMAIN evaluation)
                 /\ c \in DOMAIN evaluation => evaluation'[c] = evaluation[c]
    ]_vars

\* A hydration of c1 has been applied while c2 is active and has an entry.
C20_Witness ==
  /\ lastOp.op = "hydrated"
  /\ lastOp.caseId = "c1"
  /\ activeRecord = "c2"
  /\ "c2" \in DOMAIN evaluation
  /\ lastOp.outcome.ok
  /\ Len(lastOp.outcome.data) = 3
  /\ evaluation["c1"][1].metrics[1].value = Num(4)

\* C21: when a submission reports its outcome and ends its submitting state,
\* every persist call it issued has settled: none of them is still in flight.
C21_ReportsAfterAllSettled ==
  (lastOp.op = "persistSettled" /\ lastOp.report # "pending")
    => \A k \in 1..Len(lastOp.calls) : lastOp.calls[k].result # Pending

\* C22: a hydration is in flight only for a metric set that is ready (the
\* fetch is not started otherwise, and the page that started it shows a ready
\* metric set for as long as it is mounted); initAtId is called only with records
\* built from a ready metric set; handleSubmit runs only when the page's metric
\* set is ready; and no stored record carries the metric id "0".
C22_NotReadyGuards ==
  /\ \A h \in BagToSet(hydrations) :
       /\ metricsReady(h.metrics)
       /\ h.live => metricsReady(metrics)
  /\ lastOp.op = "hydrated" => metricsReady(lastOp.metrics)
  /\ lastOp.op = "handleSubmit" => metricsReady(metrics)
  /\ \A c \in DOMAIN evaluation : \A cell \in cellsOf(evaluation[c]) :
       evaluation[c][cell[1]].metrics[cell[2]].id # "0"

\* The page has been mounted again over a store that holds an entry, and the
\* parent hands it a record while its metric set is still the placeholder: no
\* hydration starts.
C22_Witness ==
  /\ lastOp.op = "switchCase"
  /\ ~metricsReady(metrics)
  /\ evaluation # EmptyMap
  /\ hydrations = EmptyBag

\* C23: an accepted edit has written its value to the store by the time its
\* request is in flight, and the store is written by nothing but an edit, a
\* hydration and a forced reset: in particular the settling of the request,
\* whatever its outcome, leaves the stored value as it is.
C23_OptimisticEditStays ==
  [][ /\ (lastOp'.op = "updateEvaluation" /\ lastOp'.request.sent) =>
           /\ editRequests' = [editRequests EXCEPT !.fetch = @ + 1]
           /\ LET entry == evaluation'[lastOp'.caseId]
              IN  \E i \in slotsWith(entry, lastOp'.responseId) :
                    \E j \in recordsWith(entry[i].metrics, lastOp'.metricId) :
                      entry[i].metrics[j].value = lastOp'.value
      /\ (/\ lastOp'.op \notin {"updateEvaluation", "hydrated"}
          /\ ~(lastOp'.op = "mount" /\ lastOp'.force)) =>
           evaluation' = evaluation
    ]_vars

\* The request of an edit has failed on the network and the record keeps the
\* edited score.
C23_Witness ==
  /\ lastOp.op = "editSettled"
  /\ lastOp.outcome = "error"
  /\ activeRecord = "c1"
  /\ "c1" \in DOMAIN evaluation
  /\ \E i \in slotsWith(evaluation["c1"], "r1") :
       \E j \in recordsWith(evaluation["c1"][i].metrics, "m2") :
         evaluation["c1"][i].metrics[j].value = Num(3)

\* C24: when the request of an edit fails (a non-OK response or a network
\* failure), the status callback is called.
C24_FailureSurfaced ==
  (lastOp.op = "editSettled" /\ lastOp.outcome \in {"notOk", "error"})
    => lastOp.status.delivered

\* C25: the completion flags change in two ways only: a submission of a case
\* whose outcome is success sets that case's flag to true and leaves the others,
\* and a forced reset removes them all.  Edits, hydrations, the settling of edit
\* requests, case switches and failed or partial submissions leave every flag as
\* it was.
C25_FlagFrame ==
  [][ /\ doneForId' # doneForId =>
           \/ /\ lastOp'.op = "persistSettled"
              /\ lastOp'.report = "success"
              /\ doneForId' = [c \in DOMAIN doneForId \cup {lastOp'.caseId} |->
                                 IF c = lastOp'.caseId THEN TRUE ELSE doneForId[c]]
           \/ /\ lastOp'.op = "mount"
              /\ lastOp'.force
              /\ doneForId' = EmptyMap
      /\ (lastOp'.op = "persistSettled" /\ lastOp'.report # "success") =>
           doneForId' = doneForId
      /\ lastOp'.op \in {"updateEvaluation", "editResponse", "editSettled", "hydrated", "switchCase",
                         "fetchMetrics", "handleSubmit"} =>
           doneForId' = doneForId
    ]_vars

\* A case marked done has been edited since, and a later submission of it has
\* ended short of success: its flag is still true.
C25_Witness ==
  /\ lastOp.op = "persistSettled"
  /\ lastOp.report \in {"partial", "failed"}
  /\ lastOp.caseId \in DOMAIN doneForId
  /\ doneForId[lastOp.caseId]
  /\ \E i \in slotsWith(evaluation[lastOp.caseId], "r1") :
       \E j \in recordsWith(evaluation[lastOp.caseId][i].metrics, "m2") :
         evaluation[lastOp.caseId][i].metrics[j].value = Num(3)

\* C26: a case that has an entry keeps an entry through every operation but a
\* global reset, which is the forced reset of the page or the store's init
\* (both replace the two maps as a whole): setEvaluation, initAtId,
\* setDoneForId, resetDoneStatus, a submission and the settling of its calls
\* remove no case's entry.
C26_EntriesPersist ==
  [][ lastOp'.op \notin {"reset", "init"} =>
        DOMAIN evaluation \subseteq DOMAIN evaluation' ]_vars

\* Both cases have an entry, initAtId has just written the entry of one of
\* them, and the entry setEvaluation created for the other is still there.
C26_Witness ==
  /\ lastOp.op = "initAtId"
  /\ DOMAIN evaluation = Cases
  /\ \E c \in Cases \ {lastOp.idx} : evaluation[c][1].responseId = "model-1"

\* C27: setEvaluation is idempotent (the same call again leaves the store as
\* the first left it), and it keeps what was there: every other case's entry is
\* unchanged, and in the targeted case every slot and every record present
\* before the call is present after it, at the same place and equal, except
\* that the record of the targeted response and metric may differ in its value,
\* which is then the call's value.
C27_SetScoreFrame ==
  [][ lastOp'.op = "setEvaluation" =>
        LET idx == lastOp'.idx
            payload == lastOp'.payload
        IN  /\ setEvaluation(evaluation', idx, payload) = evaluation'
            /\ (lastOp.op = "setEvaluation" /\ lastOp.idx = idx /\ lastOp.payload = payload)
                 => evaluation' = evaluation
            /\ \A c \in DOMAIN evaluation :
                 /\ c \in DOMAIN evaluation'
                 /\ c # idx => evaluation'[c] = evaluation[c]
            /\ idx \in DOMAIN evaluation =>
                 LET before == evaluation[idx]
                     after == evaluation'[idx]
                 IN  /\ Len(after) >= Len(before)
                     /\ \A i \in 1..Len(before) :
                          /\ after[i].responseId = before[i].responseId
                          /\ Len(after[i].metrics) >= Len(before[i].metrics)
                          /\ \A j \in 1..Len(before[i].metrics) :
                               \/ after[i].metrics[j] = before[i].metrics[j]
                               \/ /\ before[i].responseId = payload.responseId
                                  /\ before[i].metrics[j].id = payload.metricId
                                  /\ after[i].metrics[j] =
                                       [before[i].metrics[j] EXCEPT !.value = payload.value]
    ]_vars

\* setEvaluation has overwritten the score of r1 for m2 in an entry that
\* initAtId filled: the score of r1 for m1 next to it is still the one given.
C27_Witness ==
  /\ lastOp.op = "setEvaluation"
  /\ lastOp.branch = "overwrite"
  /\ lastOp.idx = "c1"
  /\ lastOp.payload.responseId = "r1"
  /\ lastOp.payload.metricId = "m2"
  /\ Len(evaluation["c1"][1].metrics) = 2
  /\ evaluation["c1"][1].metrics[1].value = Num(4)
  /\ evaluation["c1"][1].metrics[2].value = Num(3)

\* C28: with the evaluator id missing from the URL, neither an edit nor a
\* submission issues a network call.
C28_MissingIdsRejected ==
  url.doctorId = NoParam =>
    /\ lastOp.op = "updateEvaluation" => ~lastOp.request.sent
    /\ lastOp.op = "handleSubmit" => lastOp.path # "issued"
    /\ editRequests = NoEditRequests
    /\ submissions = << >>

\* C29: a mount resets the store exactly when force=true is supplied to it:
\* then both maps are empty after it, and the parameter is gone from the URL in
\* the same step, so that a later mount to which it is not supplied leaves the
\* store as it is.
C29_ForceResetOneShot ==
  [][ lastOp'.op = "mount" =>
        /\ ~url'.force
        /\ lastOp'.force = lastOp'.supplied
        /\ lastOp'.supplied => (evaluation' = EmptyMap /\ doneForId' = EmptyMap)
        /\ ~lastOp'.supplied => (evaluation' = evaluation /\ doneForId' = doneForId)
    ]_vars

\* The page has been mounted without the parameter over a store that holds an
\* entry and a flag: both are still there.
C29_Witness ==
  /\ lastOp.op = "mount"
  /\ ~lastOp.supplied
  /\ evaluation # EmptyMap
  /\ doneForId # EmptyMap

\* What the decision table calls the findings and impressions of a value: its
\* fields when it is an object that has them (impression standing in for a
\* missing impressions), the empty string otherwise.
fieldOr(x, keys) ==
  IF x.t # "object" THEN EmptyString
  ELSE IF \E n \in 1..Len(keys) : truthy(get(x, keys[n]))
       THEN get(x, keys[CHOOSE n \in 1..Len(keys) :
                          /\ truthy(get(x, keys[n]))
                          /\ \A m \in 1..(n - 1) : ~truthy(get(x, keys[m]))])
       ELSE EmptyString

used(x) ==
  [findings |-> fieldOr(x, << "findings" >>),
   impressions |-> fieldOr(x, << "impressions", "impression" >>)]

\* C30, as stated: an object is used directly; a string that parses as JSON is
\* parsed and the parsed value's findings and impressions are used; any other
\* string becomes the findings, with empty impressions; any other value gives
\* empty findings and impressions.
C30_DecisionTable ==
  lastOp.op = "getRecords" =>
    LET raw == lastOp.groundTruth
        result == lastOp.record.groundTruth
    IN  /\ raw.t = "object" => result = used(raw)
        /\ (raw.t = "string" /\ JSONparse(raw.s).ok) =>
             result = used(JSONparse(raw.s).value)
        /\ (raw.t = "string" /\ ~JSONparse(raw.s).ok) =>
             result = [findings |-> raw, impressions |-> EmptyString]
        /\ raw.t \notin {"object", "string"} => result = EmptyGroundTruth

\* C30, amended: a string is parsed when, trimmed, it starts with "{" and it
\* parses as JSON; every other string, one that parses as JSON without starting
\* with "{" included, becomes the findings.
C30_DecisionTableAmended ==
  lastOp.op = "getRecords" =>
    LET raw == lastOp.groundTruth
        result == lastOp.record.groundTruth
        asObject == /\ raw.t = "string"
                    /\ skipWs(raw.s) # << >>
                    /\ Head(skipWs(raw.s)) = "{"
                    /\ JSONparse(raw.s).ok
    IN  /\ raw.t = "object" => result = used(raw)
        /\ asObject => result = used(JSONparse(raw.s).value)
        /\ (raw.t = "string" /\ ~asObject) =>
             result = [findings |-> raw, impressions |-> EmptyString]
        /\ raw.t \notin {"object", "string"} => result = EmptyGroundTruth

\* A padded JSON text has been parsed: its findings are used and its impression
\* stands in for the impressions.
C30_Witness ==
  /\ lastOp.op = "getRecords"
  /\ lastOp.groundTruth.t = "string"
  /\ lastOp.groundTruth.s # << >>
  /\ Head(lastOp.groundTruth.s) = " "
  /\ lastOp.record.groundTruth =
       [findings |-> JsString(<< "A" >>), impressions |-> JsNumber(1)]

\* C31: while a hydration fetch or a persist call started by the mounted page
\* is in flight, the page's isSubmitting is true.
C31_BusyWhileInFlight ==
  (\/ \E h \in BagToSet(hydrations) : h.live
   \/ \E k \in 1..Len(submissions) : submissions[k].live)
    => isSubmitting

\* C32: an edit with null stores null in the record it names and sends score 0;
\* after a hydration every record of the hydrated entry holds null or a score
\* other than 0, and a record whose remote evaluation (the first that matches
\* its response and metric) has score 0 holds null.
C32_ClearRoundTrip ==
  /\ (lastOp.op = "updateEvaluation" /\ lastOp.value = Null) =>
       /\ lastOp.request.sent
       /\ lastOp.request.score = 0
       /\ LET entry == evaluation[lastOp.caseId]
          IN  \A i \in slotsWith(entry, lastOp.responseId) :
                \A j \in recordsWith(entry[i].metrics, lastOp.metricId) :
                  entry[i].metrics[j].value = Null
  /\ lastOp.op = "hydrated" =>
       LET entry == evaluation[lastOp.caseId]
           existing == IF lastOp.outcome.ok THEN lastOp.outcome.data ELSE << >>
       IN  \A cell \in cellsOf(entry) :
             LET slot == entry[cell[1]]
                 record == slot.metrics[cell[2]]
                 found == matching(existing, slot.responseId, record.id)
             IN  /\ record.value = Null \/ record.value[1] # 0
                 /\ (found # {} /\ existing[findIndex(found)].score = 0) =>
                      record.value = Null

\* A hydration has found a remote evaluation with score 0 for r2 and m2, and
\* the record holds null.
C32_Witness ==
  /\ lastOp.op = "hydrated"
  /\ lastOp.caseId = "c1"
  /\ lastOp.outcome.ok
  /\ \E k \in 1..Len(lastOp.outcome.data) :
       lastOp.outcome.data[k] = Ev("r2", "m2", 0)
  /\ \E i \in slotsWith(evaluation["c1"], "r2") :
       \E j \in recordsWith(evaluation["c1"][i].metrics, "m2") :
         evaluation["c1"][i].metrics[j].value = Null

\* C33: a submission of a case whose entry holds no score that is non-null and
\* above 0 issues no persist call, raises the failure notification, ends not
\* busy, and leaves every completion flag as it was.
C33_NothingToSubmitFails ==
  [][ (/\ lastOp'.op = "handleSubmit"
       /\ url.doctorId # NoParam
       /\ lastOp'.caseId \in DOMAIN evaluation
       /\ \A cell \in cellsOf(evaluation[lastOp'.caseId]) :
            LET value == evaluation[lastOp'.caseId][cell[1]].metrics[cell[2]].value
            IN  value = Null \/ value[1] <= 0)
        => /\ submissions' = submissions
           /\ toast' = SubmitFailedToast
           /\ ~isSubmitting'
           /\ doneForId' = doneForId
    ]_vars

\* A case whose only score is 0 has been submitted, and the submission has
\* failed without a call.
C33_Witness ==
  /\ lastOp.op = "handleSubmit"
  /\ lastOp.path = "noCalls"
  /\ toast = SubmitFailedToast
  /\ submissions = << >>
  /\ \E cell \in cellsOf(evaluation[lastOp.caseId]) :
       evaluation[lastOp.caseId][cell[1]].metrics[cell[2]].value = Num(0)

====
